---- MODULE Spec2Model ----
(***************************************************************************)
(* step_by_step_ks: a one-sided two-sample Kolmogorov-Smirnov test with a  *)
(* resampling p-value (src/step_by_step_ks/core.py).                       *)
(*                                                                         *)
(* The three entry points raw_ks_test, bootstrap_pvalue and ks_test are    *)
(* modelled as a state machine.  A call is started from pc = "ready"; the  *)
(* resampling loop of bootstrap_pvalue takes one step per iteration, the   *)
(* permutation random.shuffle draws being a nondeterministic choice.       *)
(* float64 arithmetic (the ECDF values count/n and their differences) is   *)
(* modelled bit-exactly, so that ties and comparisons come out as they do  *)
(* in numpy.                                                               *)
(***************************************************************************)
EXTENDS Integers, Sequences, FiniteSets, TLC

\* ------------------------------------------------------------------ bounds
\* Longest input sample of the raw_ks_test specification.
MaxLen == 3
\* Input values of the raw_ks_test specification are drawn from 1..MaxVal.
MaxVal == 2
\* Longest input sample of the resampling specifications.
MaxBootLen == 2
\* Largest number of resampling iterations (nloop / bootstrap_loops).
MaxLoops == 2
\* Largest integer bootstrap_size.
MaxSize == 2

\* ----------------------------------------------------------------- float64
\* A float64 in [-1, 1] that arises here is an integer multiple of 2^-56
\* (every ECDF value is count/n with n <= 15).  It is held as <<hi, lo>>,
\* standing for (hi * 2^28 + lo) * 2^-56 with 0 <= lo < 2^28; hi carries the
\* sign.  All intermediate integers stay below 2^31.
Limb == 2^28

Half == 2^26

FloatZero == <<0, 0>>

FloatOne == <<Limb, 0>>

\* x < y on floats.
FloatLess(x, y) == x[1] < y[1] \/ (x[1] = y[1] /\ x[2] < y[2])

\* x >= y on floats.
FloatGeq(x, y) == ~FloatLess(x, y)

\* The exponent e >= 1 with 2^-e <= a/n < 2^-(e-1), for 0 < a < n <= 15.
FloatExponent(a, n) == CHOOSE e \in 1..4 : a * 2^e >= n /\ a * 2^(e-1) < n

\* The 53-bit significand of a/n, round-to-nearest-even, as <<q1, q2>>
\* standing for q1 * 2^26 + q2: long division of a * 2^(e+52) by n in two
\* 26-bit steps, then rounding on the remainder.
FloatSignificand(a, n) ==
  LET r0 == a * 2^FloatExponent(a, n)
      q1 == (r0 * Half) \div n
      r1 == (r0 * Half) % n
      q2 == (r1 * Half) \div n
      r2 == (r1 * Half) % n
      up == IF 2 * r2 > n \/ (2 * r2 = n /\ q2 % 2 = 1) THEN 1 ELSE 0
  IN  <<q1, q2 + up>>

\* The float64 quotient a / n of two integers, 0 <= a <= n, 1 <= n <= 15
\* (numpy true division; Python int / int).
FloatDiv(a, n) ==
  IF a = 0 THEN FloatZero
  ELSE IF a = n THEN FloatOne
  ELSE LET m == FloatSignificand(a, n)
           sh == 2^(4 - FloatExponent(a, n))
           A == m[1] * sh
           C == (A % 4) * Half + m[2] * sh
       IN  <<(A \div 4) + (C \div Limb), C % Limb>>

\* The exact difference x - y of two floats, not yet rounded.
ExactSub(x, y) ==
  IF x[2] >= y[2] THEN <<x[1] - y[1], x[2] - y[2]>>
  ELSE <<x[1] - y[1] - 1, x[2] - y[2] + Limb>>

\* -x.
FloatNeg(x) == IF x[2] = 0 THEN <<-x[1], 0>> ELSE <<-x[1] - 1, Limb - x[2]>>

\* A non-negative exact value m <= 1 rounded to 53 significant bits,
\* round-to-nearest-even.  Below 2^-3 every multiple of 2^-56 is a float64.
RoundMagnitude(m) ==
  LET q == IF m[1] < 2^25 \/ m[1] >= Limb THEN 1
           ELSE IF m[1] < 2^26 THEN 2
           ELSE IF m[1] < 2^27 THEN 4
           ELSE 8
      rem == m[2] % q
      down == m[2] - rem
      up == 2 * rem > q \/ (2 * rem = q /\ (down \div q) % 2 = 1)
      lo == IF up THEN down + q ELSE down
  IN  IF lo = Limb THEN <<m[1] + 1, 0>> ELSE <<m[1], lo>>

\* The float64 difference x - y (numpy elementwise subtraction).
FloatSub(x, y) ==
  LET d == ExactSub(x, y)
  IN  IF d[1] < 0 THEN FloatNeg(RoundMagnitude(FloatNeg(d))) ELSE RoundMagnitude(d)

\* ------------------------------------------------------------------ values
\* Python's None, for an optional value held as a set of at most one element.
None == {}

Some(v) == {v}

\* The direction tokens raw_ks_test accepts for "F1 - F2".
LessTokens == {"1 less than 2", "2 greater than 1"}

\* The direction tokens raw_ks_test accepts for "F2 - F1".
GreaterTokens == {"2 less than 1", "1 greater than 2"}

Recognised == LessTokens \cup GreaterTokens

\* Tokens the code does not accept; the first two are the spellings the
\* docstring of raw_ks_test gives for the two directions.
Unrecognised == {"2 more than 1", "1 more than 2"}

Alternatives == Recognised \cup Unrecognised

\* Default of bootstrap_pvalue's respect_ratio parameter.
DefaultRespectRatio == TRUE

\* Non-empty sequences of at most maxlen values of 1..maxval.
Samples(maxlen, maxval) == UNION {[1..n -> 1..maxval] : n \in 1..maxlen}

\* The samples handed to the resampling functions: a low and a high value,
\* in any order and multiplicity.  (A third value multiplies the shuffles of
\* a six-element pool beyond what can be enumerated; the raw_ks_test
\* specification is where the value range grows.)
BootSamples == UNION {[1..n -> {1, 2}] : n \in 1..MaxBootLen}

Min(a, b) == IF a < b THEN a ELSE b

\* Python's seq[a:b] for 0 <= a <= b.
Slice(seq, a, b) == SubSeq(seq, a + 1, Min(b, Len(seq)))

\* The number of occurrences of v in seq.
Count(seq, v) == Cardinality({j \in DOMAIN seq : seq[j] = v})

Range(seq) == {seq[j] : j \in DOMAIN seq}

\* p and q hold the same values the same number of times.
IsPermutation(p, q) ==
  /\ Len(p) = Len(q)
  /\ \A v \in Range(p) \cup Range(q) : Count(p, v) = Count(q, v)

\* np.sort
Sort(seq) == SortSeq(seq, LAMBDA a, b : a < b)

\* ------------------------------------------------------------- randomize
\* seq without its first occurrence of v.
RemoveOne(seq, v) ==
  LET j == CHOOSE k \in DOMAIN seq : seq[k] = v /\ \A m \in 1..(k - 1) : seq[m] # v
  IN  SubSeq(seq, 1, j - 1) \o SubSeq(seq, j + 1, Len(seq))

\* Every arrangement of the elements of seq.
RECURSIVE Arrangements(_)
Arrangements(seq) ==
  IF Len(seq) = 0 THEN {<<>>}
  ELSE UNION {{<<v>> \o p : p \in Arrangements(RemoveOne(seq, v))} : v \in Range(seq)}

\* What random.shuffle can make of a copy of list_in: every arrangement.
randomize(list_in) == Arrangements(list_in)

\* The caller's list after randomize: untouched, the shuffle acts on a copy.
ListAfterRandomize(list_in, shuff) == list_in

\* ------------------------------------------------------------ raw_ks_test
\* ecdf(sample).cdf.evaluate(x) for a non-empty sample: the float64
\* count(sample <= x) / n.
Evaluate(sample, x) ==
  FloatDiv(Cardinality({j \in DOMAIN sample : sample[j] <= x}), Len(sample))

\* The left limit of the ECDF at x: count(sample < x) / n.
EvaluateLeft(sample, x) ==
  FloatDiv(Cardinality({j \in DOMAIN sample : sample[j] < x}), Len(sample))

\* The pooled sorted evaluation grid.
Grid(a, b) == Sort(Sort(a) \o Sort(b))

DiffSwapped(a, b, alt, x) ==
  IF alt \in LessTokens
  THEN FloatSub(Evaluate(b, x), Evaluate(a, x))
  ELSE FloatSub(Evaluate(a, x), Evaluate(b, x))

DiffLeftLimit(a, b, alt, x) ==
  IF alt \in LessTokens
  THEN FloatSub(Evaluate(a, x), EvaluateLeft(b, x))
  ELSE FloatSub(Evaluate(b, x), EvaluateLeft(a, x))

\* The directional ECDF difference at grid point x, the alternative recognised.
Diff(a, b, alt, x) ==
  IF alt \in LessTokens
  THEN FloatSub(Evaluate(a, x), Evaluate(b, x))
  ELSE FloatSub(Evaluate(b, x), Evaluate(a, x))

\* diff over the grid, as a sequence (concatenated with the empty sequence
\* so that it is computed once, not at every use of an element).
DiffSeq(a, b, alt) ==
  LET grid == Grid(a, b)
  IN  [j \in DOMAIN grid |-> Diff(a, b, alt, grid[j])] \o <<>>

ArgFirst(diff) == 1

\* np.argmax(diff), 1-based: the first index holding the largest value.
ArgMax(diff) ==
  CHOOSE j \in DOMAIN diff :
    /\ \A k \in DOMAIN diff : FloatGeq(diff[j], diff[k])
    /\ \A k \in 1..(j - 1) : FloatLess(diff[k], diff[j])

\* raw_ks_test's return value for a recognised alternative.
raw_ks_test(a, b, alt) ==
  LET diff == DiffSeq(a, b, alt)
      j == ArgMax(diff)
  IN  [stat |-> diff[j], location |-> Grid(a, b)[j]]

\* ------------------------------------------------------------------ state
VARIABLES
  data1, data2, alternative,  \* the caller's samples and direction token
  arg,          \* the caller's other arguments: [loops, respect_ratio,
                \* replacement, size, reference_stat]
  entry,        \* the function the caller invoked, "none" before the call
  pc,           \* "ready", "loop" (inside bootstrap_pvalue's for loop),
                \* "returned", "raised" (a Python exception propagates),
                \* "aborted" (os.abort() killed the process), "empty_sample"
                \* (scipy's ecdf was handed an empty sample)
  exc,          \* the exception raised, "none" otherwise
  result,       \* what the call returned: [stat, location, pvalue], each None
                \* or Some(value)
  nloop, respect_ratio, replacement, bootstrap_size, reference_stat,
                \* bootstrap_pvalue's parameters, as it received them
  all_x, i, s, d1, d2, stat   \* bootstrap_pvalue's locals; i counts the
                              \* iterations done

vars == <<data1, data2, alternative, arg, entry, pc, exc, result, nloop,
          respect_ratio, replacement, bootstrap_size, reference_stat,
          all_x, i, s, d1, d2, stat>>

callerVars == <<data1, data2, alternative, arg>>

paramVars == <<nloop, respect_ratio, replacement, bootstrap_size, reference_stat>>

size1 == Len(data1)

size2 == Len(data2)

\* bootstrap_size values: None or an integer 1..MaxSize.
Sizes == {None} \cup {Some(k) : k \in 1..MaxSize}

\* The state before any call: no frame of bootstrap_pvalue exists yet.
NoCall ==
  /\ entry = "none" /\ pc = "ready" /\ exc = "none"
  /\ result = [stat |-> None, location |-> None, pvalue |-> None]
  /\ nloop = 0 /\ respect_ratio = DefaultRespectRatio /\ replacement = FALSE
  /\ bootstrap_size = None /\ reference_stat = FloatZero
  /\ all_x = <<>> /\ i = 0 /\ s = 0 /\ d1 = <<>> /\ d2 = <<>> /\ stat = FloatZero

\* The reference statistics a caller passes: 0.0, or the statistic observed
\* on the two samples when the direction token is recognised.
References(a, b, alt) ==
  {FloatZero} \cup
  (IF alt \in Recognised THEN {raw_ks_test(a, b, alt).stat} ELSE {})

\* Inputs of a call of raw_ks_test.
InitRaw ==
  /\ data1 \in Samples(MaxLen, MaxVal)
  /\ data2 \in Samples(MaxLen, MaxVal)
  /\ alternative \in Alternatives
  /\ arg = [loops |-> 1, respect_ratio |-> TRUE, replacement |-> FALSE,
            size |-> None, reference_stat |-> FloatZero]
  /\ NoCall

\* Inputs of a call of bootstrap_pvalue.
InitBoot ==
  /\ data1 \in BootSamples
  /\ data2 \in BootSamples
  /\ alternative \in Alternatives
  /\ \E l \in 1..MaxLoops, rr \in BOOLEAN, rp \in BOOLEAN, sz \in Sizes :
       \E ref \in References(data1, data2, alternative) :
         arg = [loops |-> l, respect_ratio |-> rr, replacement |-> rp,
                size |-> sz, reference_stat |-> ref]
  /\ NoCall

\* Inputs of a call of bootstrap_pvalue that leaves the resampling policy at
\* its defaults: respect_ratio=True, replacement=False, bootstrap_size=None.
InitDefault ==
  /\ data1 \in BootSamples
  /\ data2 \in BootSamples
  /\ alternative \in Alternatives
  /\ \E l \in 1..MaxLoops :
       \E ref \in References(data1, data2, alternative) :
         arg = [loops |-> l, respect_ratio |-> DefaultRespectRatio,
                replacement |-> FALSE, size |-> None, reference_stat |-> ref]
  /\ NoCall

\* Inputs of a call of ks_test (it takes no reference statistic).
InitKs ==
  /\ data1 \in BootSamples
  /\ data2 \in BootSamples
  /\ alternative \in Alternatives
  /\ \E l \in 1..MaxLoops, rr \in BOOLEAN, rp \in BOOLEAN, sz \in Sizes :
       arg = [loops |-> l, respect_ratio |-> rr, replacement |-> rp,
              size |-> sz, reference_stat |-> FloatZero]
  /\ NoCall

\* ------------------------------------------------------- raw_ks_test call
\* raw_ks_test with a recognised direction returns stat and location.
RawReturn ==
  /\ pc = "ready"
  /\ alternative \in Recognised
  /\ entry' = "raw_ks_test"
  /\ LET test == raw_ks_test(data1, data2, alternative)
     IN  result' = [stat |-> Some(test.stat), location |-> Some(test.location),
                    pvalue |-> None]
  /\ pc' = "returned"
  /\ UNCHANGED <<callerVars, paramVars, exc, all_x, i, s, d1, d2, stat>>

\* raw_ks_test with any other token prints a message and calls os.abort():
\* the process dies on SIGABRT, nothing is raised and nothing returned.
RawAbort ==
  /\ pc = "ready"
  /\ alternative \notin Recognised
  /\ entry' = "raw_ks_test"
  /\ pc' = "aborted"
  /\ UNCHANGED <<callerVars, paramVars, exc, result, all_x, i, s, d1, d2, stat>>

\* ------------------------------------------------------- bootstrap_pvalue
\* Entry of bootstrap_pvalue: the parameters as passed, the pool, s = 0.
\* (stat_distribution is read by the plotting block alone and is left out.)
BootstrapCall ==
  /\ pc = "ready"
  /\ entry' = "bootstrap_pvalue"
  /\ nloop' = arg.loops
  /\ respect_ratio' = arg.respect_ratio
  /\ replacement' = arg.replacement
  /\ bootstrap_size' = arg.size
  /\ reference_stat' = arg.reference_stat
  /\ all_x' = data1 \o data2
  /\ s' = 0
  /\ i' = 0
  /\ pc' = "loop"
  /\ UNCHANGED <<callerVars, exc, result, d1, d2, stat>>

RatioSampleAOfSize2(shuffled) == Slice(shuffled, 0, size2)

\* d1 = shuffled[:size1]
RatioSampleA(shuffled) == Slice(shuffled, 0, size1)

RatioSampleBSkipOne(shuffled) == Slice(shuffled, size1 + 1, Len(shuffled))

\* d2 = shuffled[size1:]
RatioSampleB(shuffled) == Slice(shuffled, size1, Len(shuffled))

\* d1 = shuffled[:bootstrap_size]
FixedSampleA(shuffled, k) == Slice(shuffled, 0, k)

\* d2 = shuffled[bootstrap_size:(int(2*bootstrap_size))]
FixedSampleB(shuffled, k) == Slice(shuffled, k, 2 * k)

\* d2 = shuffled2[:bootstrap_size]
FixedSampleBReplacement(shuffled2, k) == Slice(shuffled2, 0, k)

\* The integer held by bootstrap_size when it is not None.
SizeOf(size) == CHOOSE k \in size : TRUE

\* What the two sampling blocks of one iteration can leave in d1, d2 and
\* all_x when neither raises.  With an integer bootstrap_size the fixed-size
\* block runs last and overwrites what the ratio block drew.
Draws ==
  IF bootstrap_size # None
  THEN LET k == SizeOf(bootstrap_size)
       IN  IF ~replacement
           THEN {[d1 |-> FixedSampleA(p, k), d2 |-> FixedSampleB(p, k),
                  all_x |-> ListAfterRandomize(all_x, p)] : p \in randomize(all_x)}
           ELSE {[d1 |-> FixedSampleA(pq[1], k),
                  d2 |-> FixedSampleBReplacement(pq[2], k),
                  all_x |-> ListAfterRandomize(ListAfterRandomize(all_x, pq[1]), pq[2])] :
                 pq \in randomize(all_x) \X randomize(all_x)}
  ELSE {[d1 |-> RatioSampleA(p), d2 |-> RatioSampleB(p),
         all_x |-> ListAfterRandomize(all_x, p)] : p \in randomize(all_x)}

ReachesReferenceStrict(st, ref) == FloatLess(ref, st)

\* stat >= reference_stat
ReachesReference(st, ref) == FloatGeq(st, ref)

InLoop == pc = "loop" /\ i < nloop

\* Both sampling blocks of this policy run to their end.
Samples2Drawn ==
  /\ ~(respect_ratio /\ replacement)
  /\ respect_ratio \/ bootstrap_size # None

\* respect_ratio with replacement: d1 = shuffled[:size1] is drawn, the pool
\* is shuffled a second time, and d2 = shuffled2[:size12] names a variable
\* that does not exist.  d2 is left as it was.
IterNameError ==
  /\ InLoop
  /\ respect_ratio /\ replacement
  /\ \E shuffled \in randomize(all_x), shuffled2 \in randomize(all_x) :
       /\ d1' = RatioSampleA(shuffled)
       /\ all_x' = ListAfterRandomize(ListAfterRandomize(all_x, shuffled), shuffled2)
  /\ pc' = "raised"
  /\ exc' = "NameError"
  /\ UNCHANGED <<callerVars, paramVars, entry, result, i, s, d2, stat>>

\* Neither block runs: d1 is unbound at the call of raw_ks_test.
IterUnbound ==
  /\ InLoop
  /\ ~respect_ratio /\ bootstrap_size = None
  /\ pc' = "raised"
  /\ exc' = "UnboundLocalError"
  /\ UNCHANGED <<callerVars, paramVars, entry, result, all_x, i, s, d1, d2, stat>>

\* The iteration's raw_ks_test, given two non-empty samples, meets an
\* unrecognised token and aborts.
IterAbort ==
  /\ InLoop
  /\ Samples2Drawn
  /\ alternative \notin Recognised
  /\ \E draw \in Draws :
       /\ Len(draw.d2) > 0
       /\ d1' = draw.d1
       /\ d2' = draw.d2
       /\ all_x' = draw.all_x
  /\ pc' = "aborted"
  /\ UNCHANGED <<callerVars, paramVars, entry, exc, result, i, s, stat>>

\* A fixed-size draw without replacement of bootstrap_size >= the pool size
\* leaves d2 = shuffled[k:2k] empty, and raw_ks_test hands it to scipy's
\* ecdf before it looks at the token.  What ecdf makes of an empty sample is
\* decided outside this repository: the model stops at that call.
IterEmptySample ==
  /\ InLoop
  /\ Samples2Drawn
  /\ \E draw \in Draws :
       /\ Len(draw.d2) = 0
       /\ d1' = draw.d1
       /\ d2' = draw.d2
       /\ all_x' = draw.all_x
  /\ pc' = "empty_sample"
  /\ UNCHANGED <<callerVars, paramVars, entry, exc, result, i, s, stat>>

\* One full iteration: draw d1 and d2, recompute the statistic, count it.
Iterate ==
  /\ InLoop
  /\ Samples2Drawn
  /\ alternative \in Recognised
  /\ \E draw \in Draws :
       /\ Len(draw.d2) > 0
       /\ d1' = draw.d1
       /\ d2' = draw.d2
       /\ all_x' = draw.all_x
       /\ stat' = raw_ks_test(draw.d1, draw.d2, alternative).stat
       /\ s' = IF ReachesReference(stat', reference_stat) THEN s + 1 ELSE s
  /\ i' = i + 1
  /\ UNCHANGED <<callerVars, paramVars, entry, pc, exc, result>>

\* After the loop: pvalue = s/nloop is returned; ks_test merges it into the
\* dictionary raw_ks_test gave it and returns that.
BootstrapReturn ==
  /\ pc = "loop"
  /\ i = nloop
  /\ result' = [result EXCEPT !.pvalue = Some(FloatDiv(s, nloop))]
  /\ pc' = "returned"
  /\ UNCHANGED <<callerVars, paramVars, entry, exc, all_x, i, s, d1, d2, stat>>

\* ---------------------------------------------------------------- ks_test
\* ks_test: raw_ks_test on the caller's samples, then bootstrap_pvalue with
\* nloop, replacement and bootstrap_size passed on; respect_ratio is not
\* among the arguments of that call and takes its default.
KsTestCall ==
  /\ pc = "ready"
  /\ alternative \in Recognised
  /\ entry' = "ks_test"
  /\ LET test == raw_ks_test(data1, data2, alternative)
     IN  /\ result' = [stat |-> Some(test.stat), location |-> Some(test.location),
                       pvalue |-> None]
         /\ reference_stat' = test.stat
  /\ nloop' = arg.loops
  /\ respect_ratio' = DefaultRespectRatio
  /\ replacement' = arg.replacement
  /\ bootstrap_size' = arg.size
  /\ all_x' = data1 \o data2
  /\ s' = 0
  /\ i' = 0
  /\ pc' = "loop"
  /\ UNCHANGED <<callerVars, exc, d1, d2, stat>>

\* ks_test's own raw_ks_test aborts on an unrecognised token.
KsTestAbort ==
  /\ pc = "ready"
  /\ alternative \notin Recognised
  /\ entry' = "ks_test"
  /\ pc' = "aborted"
  /\ UNCHANGED <<callerVars, paramVars, exc, result, all_x, i, s, d1, d2, stat>>

\* --------------------------------------------------------- specifications
NextRaw == RawReturn \/ RawAbort

NextBoot ==
  \/ BootstrapCall
  \/ IterNameError
  \/ IterUnbound
  \/ IterAbort
  \/ IterEmptySample
  \/ Iterate
  \/ BootstrapReturn

NextKs ==
  \/ KsTestCall
  \/ KsTestAbort
  \/ IterNameError
  \/ IterEmptySample
  \/ Iterate
  \/ BootstrapReturn

\* Calls of raw_ks_test.
SpecRaw == InitRaw /\ [][NextRaw]_vars

\* Calls of bootstrap_pvalue.
SpecBoot == InitBoot /\ [][NextBoot]_vars

NextDefault == BootstrapCall \/ IterAbort \/ Iterate \/ BootstrapReturn

\* Calls of bootstrap_pvalue under the default resampling policy.
SpecDefault == InitDefault /\ [][NextDefault]_vars

\* Calls of ks_test.
SpecKs == InitKs /\ [][NextKs]_vars

Init == InitBoot

Next == NextRaw \/ NextBoot \/ KsTestCall \/ KsTestAbort

\* Any one call of any of the three functions.
Spec == Init /\ [][Next]_vars

\* ----------------------------------------------------------------- claims
\* Every value of a is strictly below every value of b.
Disjoint(a, b) == \A j \in DOMAIN a : \A k \in DOMAIN b : a[j] < b[k]

\* bootstrap_pvalue runs in ratio-preserving, no-replacement mode.
RatioNoReplacement ==
  /\ entry = "bootstrap_pvalue"
  /\ respect_ratio /\ ~replacement /\ bootstrap_size = None

\* C1: whatever the two non-empty samples and whichever recognised token,
\* the stat raw_ks_test returns is >= 0.
C1_StatNonNegative ==
  (entry = "raw_ks_test" /\ pc = "returned")
    => /\ result.stat # None
       /\ \A st \in result.stat : FloatGeq(st, FloatZero)

\* C1 witness: an unsorted first sample lying above the second one, so that
\* the difference is negative on the grid and still the stat returned is 0.
C1_Witness ==
  /\ entry = "raw_ks_test" /\ pc = "returned"
  /\ alternative = "1 less than 2"
  /\ Sort(data1) # data1
  /\ \E j \in DOMAIN data2 :
       FloatLess(Diff(data1, data2, alternative, data2[j]), FloatZero)
  /\ result.stat = Some(FloatZero)

\* C2: raw_ks_test(S, S, direction) returns stat exactly 0.0, for every
\* recognised direction.
C2_IdentityIsZero ==
  (entry = "raw_ks_test" /\ pc = "returned" /\ data1 = data2)
    => result.stat = Some(FloatZero)

\* C2 witness: a sample of several distinct values compared with itself in
\* the direction '2 less than 1'.
C2_Witness ==
  /\ entry = "raw_ks_test" /\ pc = "returned"
  /\ data1 = data2
  /\ Cardinality(Range(data1)) > 1
  /\ alternative = "2 less than 1"
  /\ result.stat = Some(FloatZero)

\* C3: under '1 less than 2', a first sample entirely below the second gives
\* stat exactly 1.0, and a first sample entirely above the second gives
\* stat exactly 0.0.
C3_DisjointExtremes ==
  (entry = "raw_ks_test" /\ pc = "returned" /\ alternative = "1 less than 2")
    => /\ Disjoint(data1, data2) => result.stat = Some(FloatOne)
       /\ Disjoint(data2, data1) => result.stat = Some(FloatZero)

\* C3 witness: disjoint samples of unequal sizes, the lower one first.
C3_Witness ==
  /\ entry = "raw_ks_test" /\ pc = "returned"
  /\ alternative = "1 less than 2"
  /\ Disjoint(data1, data2)
  /\ Len(data1) > 1 /\ Len(data2) > Len(data1)
  /\ result.stat = Some(FloatOne)

\* C4 (as claimed): an unrecognised token makes raw_ks_test raise
\* InvalidAlternative, an error its caller can handle.
C4_RaisesInvalidAlternative ==
  (entry = "raw_ks_test" /\ alternative \notin Recognised)
    => pc = "raised" /\ exc = "InvalidAlternative"

\* C5: with reference_stat = 0 in ratio-preserving no-replacement mode every
\* iteration is counted (s keeps up with the iterations done), no call
\* fails, and the p-value returned is exactly 1.0.
C5_ZeroReferenceIsOne ==
  (RatioNoReplacement /\ alternative \in Recognised /\ reference_stat = FloatZero)
    => /\ pc \in {"loop", "returned"}
       /\ s = i
       /\ pc = "returned" => result.pvalue = Some(FloatOne)

\* C5 witness: a disjoint pair tested in the reverse direction, all of
\* MaxLoops iterations done and 1.0 returned.
C5_Witness ==
  /\ RatioNoReplacement /\ pc = "returned"
  /\ reference_stat = FloatZero
  /\ alternative = "1 greater than 2"
  /\ Disjoint(data1, data2)
  /\ nloop = MaxLoops
  /\ result.pvalue = Some(FloatOne)

\* The far-distribution case: data1 entirely below data2, tested for
\* '1 less than 2' against the statistic observed on the pair.
FarCase ==
  /\ RatioNoReplacement
  /\ Disjoint(data1, data2)
  /\ alternative = "1 less than 2"
  /\ reference_stat = raw_ks_test(data1, data2, alternative).stat

\* C6 (as claimed): in the far-distribution case the p-value returned is
\* exactly 0.0.
C6_FarPvalueIsZero ==
  (FarCase /\ pc = "returned") => result.pvalue = Some(FloatZero)

\* C6 (amended), state part: the observed statistic is 1.0 and the value
\* returned is s/nloop, which is 0.0 exactly when s = 0.
C6_FarState ==
  FarCase =>
    /\ reference_stat = FloatOne
    /\ pc \in {"loop", "returned"}
    /\ pc = "returned" =>
         /\ result.pvalue = Some(FloatDiv(s, nloop))
         /\ result.pvalue = Some(FloatZero) <=> s = 0

\* C6 (amended), step part: an iteration is counted exactly when its shuffle
\* put the values of data1, all of them and no other, into working-sample-A.
C6_FarStep ==
  (FarCase /\ i' = i + 1)
    => s' = IF IsPermutation(d1', data1) THEN s + 1 ELSE s

\* C6 (amended): in the far-distribution case the observed statistic is 1.0
\* and bootstrap_pvalue returns s/nloop, s being the number of iterations
\* whose shuffle rebuilt the original separation; the result is 0.0 only
\* when no iteration drew such a shuffle.
C6_FarPvalueCountsSeparations == []C6_FarState /\ [][C6_FarStep]_vars

\* C6 witness: several iterations, none of which rebuilt the separation,
\* and 0.0 returned.
C6_Witness ==
  /\ FarCase /\ pc = "returned"
  /\ nloop = MaxLoops
  /\ Len(data1) > 1
  /\ result.pvalue = Some(FloatZero)

\* C7 (as claimed): ks_test hands bootstrap_pvalue the reference statistic
\* it computed and each of bootstrap_loops, bootstrap_respect_ratio,
\* bootstrap_replacement and bootstrap_size unchanged.
C7_ForwardsPolicy ==
  (entry = "ks_test" /\ pc \in {"loop", "returned", "raised"})
    => /\ result.stat = Some(reference_stat)
       /\ nloop = arg.loops
       /\ respect_ratio = arg.respect_ratio
       /\ replacement = arg.replacement
       /\ bootstrap_size = arg.size

\* C8: in ratio-preserving no-replacement mode, after every iteration d1 has
\* len(data1) elements, d2 has len(data2) elements, d1 followed by d2 is a
\* permutation of the pool, and the pool is still data1 followed by data2.
C8_Partition ==
  (RatioNoReplacement /\ i >= 1)
    => /\ Len(d1) = size1
       /\ Len(d2) = size2
       /\ IsPermutation(d1 \o d2, all_x)
       /\ all_x = data1 \o data2

\* C8 witness: samples of unequal sizes, and a shuffle that moved values
\* across the two working samples.
C8_Witness ==
  /\ RatioNoReplacement /\ i >= 1
  /\ size1 # size2
  /\ ~IsPermutation(d1, data1)
  /\ d1 \o d2 # all_x

\* C9 (as claimed): in ratio-preserving mode with replacement every
\* iteration completes, no call ends in an exception.
C9_ReplacementCompletes ==
  (entry = "bootstrap_pvalue" /\ respect_ratio /\ replacement /\ bootstrap_size = None)
    => pc # "raised"

\* C10 (as claimed): with an integer bootstrap_size k, the two working
\* samples an iteration hands to the statistic hold exactly k elements each.
C10_FixedSizeSamples ==
  (entry = "bootstrap_pvalue" /\ bootstrap_size # None
     /\ (i >= 1 \/ pc \in {"aborted", "empty_sample"}))
    => /\ Len(d1) = SizeOf(bootstrap_size)
       /\ Len(d2) = SizeOf(bootstrap_size)

====
